---- MODULE Spec2Model ----
(***************************************************************************)
(* Model of VHL.Music.V1.DragAndDrop (src/scripts/drag_and_drop.js).       *)
(*                                                                         *)
(* One controller instance: a set of draggable elements, a set of target   *)
(* elements, the CSS state classes and attributes the handlers put on      *)
(* them, the jQuery handlers attached to each element, the instance field  *)
(* $dragElement, and the event stream the host page delivers.              *)
(*                                                                         *)
(* Events are delivered to an element by the host (directly or by bubbling *)
(* from a descendant); what the controller does with them is decided only  *)
(* by the handlers that are attached to the element at that moment.        *)
(***************************************************************************)
EXTENDS Integers, Sequences, FiniteSets

----------------------------------------------------------------------------
(* Bounds of the model *)

NumDraggables == 2
NumTargets == 2
\* how many times init() runs in all (the constructor's call included)
MaxInits == 2

----------------------------------------------------------------------------
(* Program constants *)

ENTER_KEY == 13
SPACE_BAR == 32
ESCAPE == 27

IS_MOVING == "is-moving"
IS_AVAILABLE_TARGET == "is-available-target"
IS_HOVERED == "is-hovered"
IS_SELECTED == "is-selected"

----------------------------------------------------------------------------
(* Elements and values *)

\* this.$draggables and this.$targets, in document order
Draggables == 1..NumDraggables
Targets == {NumDraggables + j : j \in 1..NumTargets}
Elements == Draggables \cup Targets
D(i) == i
T(j) == NumDraggables + j

\* A jQuery object is a 1-tuple holding its set of elements; the JavaScript
\* value undefined is the empty tuple.
JQ(els) == <<els>>
Undef == <<>>
Els(jq) == jq[1]

\* an attribute that is not present on the element
Absent == "absent"

\* the host's drag gesture: none, one whose source is outside the controller
\* (a file, a selection, another controller's draggable), or one whose source
\* is a draggable of this controller
NoGesture == [kind |-> "none", src |-> {}]
ForeignGesture == [kind |-> "foreign", src |-> {}]
OwnGesture(d) == [kind |-> "own", src |-> {d}]

\* what the caller's checkMatch callback does with the pair it is given
CbBehaviours == {"nothing", "disable"}

\* keys the host delivers
KeypressKeys == {ENTER_KEY, SPACE_BAR, ESCAPE}
KeydownKeys == {ESCAPE, ENTER_KEY}

VARIABLES
    cls,            \* element -> set of state classes it carries
    attr,           \* element -> [draggable, tabindex, grabbed, dropeffect]
    hDrag,          \* element -> number of attached drag handler groups
    hClick,         \* element -> number of attached 'click' handlers
    hKeypress,      \* element -> number of attached 'keypress' handlers
    hKeydown,       \* number of 'keydown' handlers attached to $context
    dragElement,    \* self.$dragElement
    disabled,       \* elements given to disableMatching since the last init
    cleanedUp,      \* cleanup() has run and init() has not run since
    gesture,        \* the host's drag gesture
    dropDone,       \* the gesture's drop event has been delivered
    gestureIntact,  \* the gesture's dragstart was handled, no public call since
    lastCalls,      \* the checkMatch invocations made by the last event
    lastFocus       \* the element the last event's handlers moved the focus to

vars == <<cls, attr, hDrag, hClick, hKeypress, hKeydown, dragElement,
          disabled, cleanedUp, gesture, dropDone, gestureIntact, lastCalls,
          lastFocus>>

\* the controller's state as one value, with the calls made and the focus
\* moved so far in the event being handled
Cur ==
    [cls |-> cls, attr |-> attr, hDrag |-> hDrag, hClick |-> hClick,
     hKeypress |-> hKeypress, hKeydown |-> hKeydown,
     dragElement |-> dragElement, disabled |-> disabled,
     calls |-> <<>>, focus |-> {}]

Commit(s) ==
    /\ cls' = s.cls
    /\ attr' = s.attr
    /\ hDrag' = s.hDrag
    /\ hClick' = s.hClick
    /\ hKeypress' = s.hKeypress
    /\ hKeydown' = s.hKeydown
    /\ dragElement' = s.dragElement
    /\ disabled' = s.disabled
    /\ lastCalls' = s.calls
    /\ lastFocus' = s.focus

----------------------------------------------------------------------------
(* jQuery operations on a set of elements *)

AddClass(s, els, c) ==
    [s EXCEPT !.cls = [e \in Elements |-> IF e \in els THEN @[e] \cup {c} ELSE @[e]]]

RemoveClass(s, els, c) ==
    [s EXCEPT !.cls = [e \in Elements |-> IF e \in els THEN @[e] \ {c} ELSE @[e]]]

\* .toggleClass(c, state)
ToggleClass(s, els, c, state) ==
    IF state THEN AddClass(s, els, c) ELSE RemoveClass(s, els, c)

\* .hasClass(c): true when any element of the set carries it
HasClass(s, els, c) == \E e \in els : c \in s.cls[e]

\* .attr(name, value) and .removeAttr(name) (value Absent)
SetAttr(s, els, name, value) ==
    [s EXCEPT !.attr = [e \in Elements |->
        IF e \in els THEN [@[e] EXCEPT ![name] = value] ELSE @[e]]]

\* the first element of a non-empty set, in document order
First(els) == CHOOSE e \in els : \A f \in els : e <= f

\* .attr(name): the first element's value, undefined for the empty set
GetAttr(s, els, name) ==
    IF els = {} THEN Absent ELSE s.attr[First(els)][name]

\* .filter('.' + c)
Filter(s, els, c) == {e \in els : c \in s.cls[e]}

\* .focus(): each element in turn takes the focus if it is focusable (an
\* element without tabindex is not)
FocusOn(s, els) ==
    LET able == {e \in els : s.attr[e].tabindex # Absent}
    IN  IF able = {} THEN s
        ELSE [s EXCEPT !.focus = {CHOOSE e \in able : \A f \in able : f <= e}]

----------------------------------------------------------------------------
(* Public operation disableMatching, and the caller's callback *)

\* _removeDragEventHandlers: .off() with the handler functions named
RemoveDragEventHandlers(s, ds, ts) ==
    [s EXCEPT !.hDrag = [e \in Elements |-> IF e \in ds \cup ts THEN 0 ELSE @[e]]]

\* _removeKeyboardEventHandlers: .off('click') on both sets, nothing else
RemoveKeyboardEventHandlers(s, ds, ts) ==
    [s EXCEPT !.hClick = [e \in Elements |-> IF e \in ds \cup ts THEN 0 ELSE @[e]]]

\* disableMatching as it would be if it detached the handlers of the whole
\* sets instead of those of the pair (used to test C7)
DisableMatching_WholeSets(s, dArg, tArg) ==
    IF dArg # Undef /\ tArg # Undef
    THEN LET s1 == SetAttr(s, Els(dArg), "draggable", Absent)
             s2 == SetAttr(s1, Els(dArg), "grabbed", Absent)
             s3 == SetAttr(s2, Els(dArg), "tabindex", Absent)
             s4 == SetAttr(s3, Els(tArg), "dropeffect", Absent)
             s5 == RemoveDragEventHandlers(s4, Draggables, Targets)
             s6 == RemoveKeyboardEventHandlers(s5, Draggables, Targets)
         IN  [s6 EXCEPT !.disabled = @ \cup Els(dArg) \cup Els(tArg)]
    ELSE s

\* disableMatching as it would be without its test of the arguments, a
\* missing argument standing for no element (used to test C12)
DisableMatching_NoArgumentTest(s, dArg, tArg) ==
    LET ds == IF dArg = Undef THEN {} ELSE Els(dArg)
        ts == IF tArg = Undef THEN {} ELSE Els(tArg)
        s1 == SetAttr(s, ds, "draggable", Absent)
        s2 == SetAttr(s1, ds, "grabbed", Absent)
        s3 == SetAttr(s2, ds, "tabindex", Absent)
        s4 == SetAttr(s3, ts, "dropeffect", Absent)
        s5 == RemoveDragEventHandlers(s4, ds, ts)
        s6 == RemoveKeyboardEventHandlers(s5, ds, ts)
    IN  [s6 EXCEPT !.disabled = @ \cup ds \cup ts]

\* disableMatching($draggable, $target); an empty jQuery object is truthy
DisableMatching(s, dArg, tArg) ==
    IF dArg # Undef /\ tArg # Undef
    THEN LET s1 == SetAttr(s, Els(dArg), "draggable", Absent)
             s2 == SetAttr(s1, Els(dArg), "grabbed", Absent)
             s3 == SetAttr(s2, Els(dArg), "tabindex", Absent)
             s4 == SetAttr(s3, Els(tArg), "dropeffect", Absent)
             s5 == RemoveDragEventHandlers(s4, Els(dArg), Els(tArg))
             s6 == RemoveKeyboardEventHandlers(s5, Els(dArg), Els(tArg))
         IN  [s6 EXCEPT !.disabled = @ \cup Els(dArg) \cup Els(tArg)]
    ELSE s

\* self.checkMatch($theDraggable, $theTarget): the call is recorded, then the
\* caller's function either does nothing to the controller or disables the
\* pair it was handed
CheckMatch(s, dArg, tArg, cb) ==
    LET s1 == [s EXCEPT !.calls = Append(@, <<dArg, tArg>>)]
    IN  IF cb = "disable" THEN DisableMatching(s1, dArg, tArg) ELSE s1

----------------------------------------------------------------------------
(* Event handlers *)

\* _handleDragStart as it would be if starting a drag cleared the discrete
\* selection (used to test C16)
HandleDragStart_ClearsSelection(s, el) ==
    LET s1 == [s EXCEPT !.dragElement = JQ({el})]
        s2 == AddClass(s1, {el}, IS_MOVING)
        s3 == AddClass(s2, Targets, IS_AVAILABLE_TARGET)
        s4 == SetAttr(s3, Targets, "dropeffect", "move")
        s5 == RemoveClass(s4, Elements, IS_SELECTED)
    IN  SetAttr(s5, {el}, "grabbed", "true")

HandleDragStart(s, el) ==
    LET s1 == [s EXCEPT !.dragElement = JQ({el})]
        s2 == AddClass(s1, {el}, IS_MOVING)
        s3 == AddClass(s2, Targets, IS_AVAILABLE_TARGET)
        s4 == SetAttr(s3, Targets, "dropeffect", "move")
    IN  SetAttr(s4, {el}, "grabbed", "true")

\* self.$dragElement.removeClass(...) throws when $dragElement is undefined:
\* the handler ends there and nothing has changed
HandleDragEnd(s, el) ==
    IF s.dragElement = Undef THEN s
    ELSE LET s1 == RemoveClass(s, Els(s.dragElement), IS_MOVING)
             s2 == RemoveClass(s1, Targets, IS_AVAILABLE_TARGET)
         IN  SetAttr(s2, Els(s.dragElement), "grabbed", "false")

HandleDragEnter(s, el) == AddClass(s, {el}, IS_HOVERED)

HandleDragLeave(s, el) == RemoveClass(s, {el}, IS_HOVERED)

HandleDragOver(s, el) == AddClass(AddClass(s, {el}, IS_HOVERED), {el}, IS_HOVERED)

\* _handleDrop as it would be if the drop also did the work of the drag-end
\* (used to test C15)
HandleDrop_EndsDrag(s, el, cb) ==
    LET theDraggable == s.dragElement
        s1 == RemoveClass(s, {el}, IS_HOVERED)
    IN  CheckMatch(HandleDragEnd(s1, el), theDraggable, JQ({el}), cb)

\* _handleDrop as it would be without its removeClass(IS_HOVERED) (used to
\* test C8)
HandleDrop_KeepsHover(s, el, cb) ==
    CheckMatch(s, s.dragElement, JQ({el}), cb)

HandleDrop(s, el, cb) ==
    LET theDraggable == s.dragElement
        s1 == RemoveClass(s, {el}, IS_HOVERED)
    IN  CheckMatch(s1, theDraggable, JQ({el}), cb)

SelectedDraggable(s) == Filter(s, Draggables, IS_SELECTED)

SelectedTarget(s) == Filter(s, Targets, IS_SELECTED)

\* _keyboardSelect as it would be if it cleared the selection once the pair
\* has been dispatched (used to test C14)
KeyboardSelect_ClearsAfterDispatch(s, els, cb) ==
    LET newState == ~HasClass(s, els, IS_SELECTED)
        s1 == IF GetAttr(s, els, "draggable") # Absent
              THEN RemoveClass(s, Draggables, IS_SELECTED)
              ELSE RemoveClass(s, Targets, IS_SELECTED)
        s2 == ToggleClass(s1, els, IS_SELECTED, newState)
        theDraggable == SelectedDraggable(s2)
        theTarget == SelectedTarget(s2)
    IN  IF theDraggable # {} /\ theTarget # {}
        THEN RemoveClass(CheckMatch(s2, JQ(theDraggable), JQ(theTarget), cb),
                         Elements, IS_SELECTED)
        ELSE s2

\* _keyboardSelect(self, $el), $el a jQuery object (possibly empty)
KeyboardSelect(s, els, cb) ==
    LET newState == ~HasClass(s, els, IS_SELECTED)
        s1 == IF GetAttr(s, els, "draggable") # Absent
              THEN RemoveClass(s, Draggables, IS_SELECTED)
              ELSE RemoveClass(s, Targets, IS_SELECTED)
        s2 == ToggleClass(s1, els, IS_SELECTED, newState)
        theDraggable == SelectedDraggable(s2)
        theTarget == SelectedTarget(s2)
    IN  IF theDraggable # {} /\ theTarget # {}
        THEN CheckMatch(s2, JQ(theDraggable), JQ(theTarget), cb)
        ELSE s2

\* the 'click keypress' handler of a draggable or of a target
HandleActivate(s, type, el, which, cb) ==
    IF type = "click" \/ which = ENTER_KEY \/ which = SPACE_BAR
    THEN KeyboardSelect(s, {el}, cb)
    ELSE s

\* the 'keydown' handler of $context
HandleKeydown(s, which, cb) ==
    IF which = ESCAPE
    THEN LET selectedElement == SelectedDraggable(s)
         IN  FocusOn(KeyboardSelect(s, selectedElement, cb), selectedElement)
    ELSE s

\* one run of the handler for an event type on element el
Handle(s, type, el, which, cb) ==
    CASE type = "dragstart" -> HandleDragStart(s, el)
      [] type = "dragend" -> HandleDragEnd(s, el)
      [] type = "dragenter" -> HandleDragEnter(s, el)
      [] type = "dragleave" -> HandleDragLeave(s, el)
      [] type = "dragover" -> HandleDragOver(s, el)
      [] type = "drop" -> HandleDrop(s, el, cb)
      [] type \in {"click", "keypress"} -> HandleActivate(s, type, el, which, cb)
      [] type = "keydown" -> HandleKeydown(s, which, cb)

\* jQuery's dispatch: the handlers attached when the event arrives all run, in
\* order, also those a previous one has detached meanwhile; cbs holds, for each
\* of them, what the callback does if that handler invokes it
RECURSIVE Dispatch(_, _, _, _, _)
Dispatch(s, type, el, which, cbs) ==
    IF cbs = <<>> THEN s
    ELSE Dispatch(Handle(s, type, el, which, Head(cbs)), type, el, which, Tail(cbs))

\* the callback behaviours for n handlers
CbChoices(n) == [1..n -> CbBehaviours]

----------------------------------------------------------------------------
(* Lifecycle: constructor, init, cleanup *)

\* _addDragEventHandlers: .on() adds one more handler of each drag event type
AddDragEventHandlers(s) ==
    [s EXCEPT !.hDrag = [e \in Elements |-> @[e] + 1]]

\* _addKeyboardEventHandlers: one more 'click' and 'keypress' handler on every
\* draggable and target, one more 'keydown' handler on $context
AddKeyboardEventHandlers(s) ==
    [s EXCEPT !.hClick = [e \in Elements |-> @[e] + 1],
              !.hKeypress = [e \in Elements |-> @[e] + 1],
              !.hKeydown = @ + 1]

\* init()
InitOp(s) ==
    LET s1 == SetAttr(s, Draggables, "tabindex", "0")
        s2 == SetAttr(s1, Targets, "tabindex", "0")
        s3 == SetAttr(s2, Draggables, "draggable", "true")
        s4 == SetAttr(s3, Draggables, "grabbed", "false")
        s5 == SetAttr(s4, Targets, "dropeffect", "move")
        s6 == AddKeyboardEventHandlers(AddDragEventHandlers(s5))
    IN  [s6 EXCEPT !.disabled = {}]

\* cleanup()
CleanupOp(s) ==
    LET s1 == SetAttr(s, Draggables, "draggable", Absent)
        s2 == SetAttr(s1, Draggables, "tabindex", Absent)
        s3 == SetAttr(s2, Targets, "tabindex", Absent)
        s4 == RemoveDragEventHandlers(s3, Draggables, Targets)
    IN  RemoveKeyboardEventHandlers(s4, Draggables, Targets)

\* the elements as the page holds them before the controller is constructed:
\* no state class, none of the attributes, no handler
Fresh ==
    [cls |-> [e \in Elements |-> {}],
     attr |-> [e \in Elements |-> [draggable |-> Absent, tabindex |-> Absent,
                                   grabbed |-> Absent, dropeffect |-> Absent]],
     hDrag |-> [e \in Elements |-> 0],
     hClick |-> [e \in Elements |-> 0],
     hKeypress |-> [e \in Elements |-> 0],
     hKeydown |-> 0,
     dragElement |-> Undef,
     disabled |-> {},
     calls |-> <<>>,
     focus |-> {}]

\* new DragAndDrop(...): the constructor sets the fields and calls init()
Constructed == InitOp(Fresh)

Init ==
    /\ cls = Constructed.cls
    /\ attr = Constructed.attr
    /\ hDrag = Constructed.hDrag
    /\ hClick = Constructed.hClick
    /\ hKeypress = Constructed.hKeypress
    /\ hKeydown = Constructed.hKeydown
    /\ dragElement = Constructed.dragElement
    /\ disabled = Constructed.disabled
    /\ cleanedUp = FALSE
    /\ gesture = NoGesture
    /\ dropDone = FALSE
    /\ gestureIntact = FALSE
    /\ lastCalls = <<>>
    /\ lastFocus = {}

----------------------------------------------------------------------------
(* Actions: the events the host delivers and the caller's public calls *)

\* the host starts a drag gesture on draggable d and delivers dragstart to it
DragStart(d) ==
    /\ gesture = NoGesture
    /\ Commit(Dispatch(Cur, "dragstart", d, 0, [i \in 1..hDrag[d] |-> "nothing"]))
    /\ gesture' = OwnGesture(d)
    /\ dropDone' = FALSE
    /\ gestureIntact' = (hDrag[d] > 0)
    /\ UNCHANGED cleanedUp

\* the gesture ends (dropped or cancelled): dragend is delivered to its source
DragEnd(d) ==
    /\ gesture = OwnGesture(d)
    /\ Commit(Dispatch(Cur, "dragend", d, 0, [i \in 1..hDrag[d] |-> "nothing"]))
    /\ gesture' = NoGesture
    /\ dropDone' = FALSE
    /\ gestureIntact' = FALSE
    /\ UNCHANGED cleanedUp

\* a drag whose source is not one of this controller's draggables begins; no
\* handler of the controller is involved
ForeignDragStart ==
    /\ gesture = NoGesture
    /\ gesture' = ForeignGesture
    /\ dropDone' = FALSE
    /\ gestureIntact' = FALSE
    /\ lastCalls' = <<>>
    /\ lastFocus' = {}
    /\ UNCHANGED <<cls, attr, hDrag, hClick, hKeypress, hKeydown, dragElement,
                   disabled, cleanedUp>>

ForeignDragEnd ==
    /\ gesture = ForeignGesture
    /\ gesture' = NoGesture
    /\ dropDone' = FALSE
    /\ gestureIntact' = FALSE
    /\ lastCalls' = <<>>
    /\ lastFocus' = {}
    /\ UNCHANGED <<cls, attr, hDrag, hClick, hKeypress, hKeydown, dragElement,
                   disabled, cleanedUp>>

\* dragenter, dragleave or dragover on target t while a gesture is in progress
\* and its drop has not happened
TargetEvent(type, t) ==
    /\ gesture # NoGesture
    /\ ~dropDone
    /\ Commit(Dispatch(Cur, type, t, 0, [i \in 1..hDrag[t] |-> "nothing"]))
    /\ UNCHANGED <<cleanedUp, gesture, dropDone, gestureIntact>>

DragEnter(t) == TargetEvent("dragenter", t)

DragLeave(t) == TargetEvent("dragleave", t)

DragOver(t) == TargetEvent("dragover", t)

\* the gesture's drop, on target t
Drop(t) ==
    /\ gesture # NoGesture
    /\ ~dropDone
    /\ \E cbs \in CbChoices(hDrag[t]) :
          Commit(Dispatch(Cur, "drop", t, 0, cbs))
    /\ dropDone' = TRUE
    /\ UNCHANGED <<cleanedUp, gesture, gestureIntact>>

\* a click on element el; the host delivers no mouse or keyboard event while
\* a drag gesture is in progress
Click(el) ==
    /\ gesture = NoGesture
    /\ \E cbs \in CbChoices(hClick[el]) :
          Commit(Dispatch(Cur, "click", el, 0, cbs))
    /\ UNCHANGED <<cleanedUp, gesture, dropDone, gestureIntact>>

\* a keypress with key code which, delivered to element el
KeyPress(el, which) ==
    /\ gesture = NoGesture
    /\ \E cbs \in CbChoices(hKeypress[el]) :
          Commit(Dispatch(Cur, "keypress", el, which, cbs))
    /\ UNCHANGED <<cleanedUp, gesture, dropDone, gestureIntact>>

\* a keydown with key code which, reaching $context
KeyDown(which) ==
    /\ gesture = NoGesture
    /\ \E cbs \in CbChoices(hKeydown) :
          Commit(Dispatch(Cur, "keydown", 0, which, cbs))
    /\ UNCHANGED <<cleanedUp, gesture, dropDone, gestureIntact>>

\* the caller calls init() again, after a cleanup()
InitCall ==
    /\ cleanedUp
    /\ hKeydown < MaxInits
    /\ Commit(InitOp(Cur))
    /\ cleanedUp' = FALSE
    /\ gestureIntact' = FALSE
    /\ UNCHANGED <<gesture, dropDone>>

\* the caller calls cleanup()
Cleanup ==
    /\ Commit(CleanupOp(Cur))
    /\ cleanedUp' = TRUE
    /\ gestureIntact' = FALSE
    /\ UNCHANGED <<gesture, dropDone>>

\* what the caller may pass for one argument of disableMatching: nothing, or
\* one element of the set
Args(set) == {Undef} \cup {JQ({e}) : e \in set}

\* the caller calls disableMatching(dArg, tArg) outside the callback
DisableMatchingCall(dArg, tArg) ==
    /\ Commit(DisableMatching(Cur, dArg, tArg))
    /\ gestureIntact' = FALSE
    /\ UNCHANGED <<cleanedUp, gesture, dropDone>>

Next ==
    \/ \E d \in Draggables : DragStart(d)
    \/ \E d \in Draggables : DragEnd(d)
    \/ ForeignDragStart
    \/ ForeignDragEnd
    \/ \E t \in Targets : DragEnter(t)
    \/ \E t \in Targets : DragLeave(t)
    \/ \E t \in Targets : DragOver(t)
    \/ \E t \in Targets : Drop(t)
    \/ \E which \in KeydownKeys : KeyDown(which)
    \/ \E el \in Elements, which \in KeypressKeys : KeyPress(el, which)
    \/ \E el \in Elements : Click(el)
    \/ InitCall
    \/ Cleanup
    \/ \E dArg \in Args(Draggables), tArg \in Args(Targets) :
          DisableMatchingCall(dArg, tArg)

Spec == Init /\ [][Next]_vars

----------------------------------------------------------------------------
(* Vocabulary of the properties *)

Carries(e, c) == c \in cls[e]

CarriesNext(e, c) == c \in cls'[e]

SelectedDraggablesNow == {d \in Draggables : Carries(d, IS_SELECTED)}

SelectedTargetsNow == {t \in Targets : Carries(t, IS_SELECTED)}

SelectedDraggablesNext == {d \in Draggables : CarriesNext(d, IS_SELECTED)}

SelectedTargetsNext == {t \in Targets : CarriesNext(t, IS_SELECTED)}

\* this step is an activation (click or confirm-key) of element e
Activate(e) ==
    \/ Click(e)
    \/ \E which \in {ENTER_KEY, SPACE_BAR} : KeyPress(e, which)

\* element e is interactive: the controller is set up and e is not disabled
Interactive(e) == ~cleanedUp /\ e \notin disabled

\* the one checkMatch invocation with draggable d and target t
OneCall(d, t) == << <<JQ({d}), JQ({t})>> >>

\* an own gesture on d whose dragstart the controller handled and which no
\* public call (init, cleanup, disableMatching from outside the callback) has
\* interfered with
InGesture(d) == gesture = OwnGesture(d) /\ gestureIntact

----------------------------------------------------------------------------
(* C1: when the drag-end of a gesture that began with a handled drag-start  *)
(* on D is delivered to D, then whatever target events and callback         *)
(* behaviour came in between, D no longer carries is-moving and no target   *)
(* carries is-available-target.                                             *)

C1_MarkersRestoredAtDragEnd ==
    [][\A d \in Draggables :
          (InGesture(d) /\ DragEnd(d)) =>
              /\ ~CarriesNext(d, IS_MOVING)
              /\ \A t \in Targets : ~CarriesNext(t, IS_AVAILABLE_TARGET)]_vars

----------------------------------------------------------------------------
(* C2: in every reachable state at most one draggable and at most one       *)
(* target carries is-selected.                                              *)

C2_AtMostOneSelectedPerSet ==
    /\ Cardinality(SelectedDraggablesNow) <= 1
    /\ Cardinality(SelectedTargetsNow) <= 1

----------------------------------------------------------------------------
(* C3: once cleanup() has run (and init() has not run again), no step       *)
(* invokes the callback and no step changes a state class of any element.   *)
(* Public calls never touch the state classes, so the steps this constrains *)
(* are the input events.                                                    *)

C3_NoEffectAfterCleanup ==
    [][(cleanedUp /\ cleanedUp') => (cls' = cls /\ lastCalls' = <<>>)]_vars

----------------------------------------------------------------------------
(* C4: a cancel-key press while a draggable is selected leaves that         *)
(* draggable unselected and moves the focus to it; a cancel-key press while *)
(* no draggable is selected changes no state class (a selected target stays *)
(* selected) and invokes no callback.                                       *)

C4_CancelKey ==
    [][KeyDown(ESCAPE) =>
          IF SelectedDraggablesNow # {}
          THEN \A d \in SelectedDraggablesNow :
                  ~CarriesNext(d, IS_SELECTED) /\ lastFocus' = {d}
          ELSE cls' = cls /\ lastCalls' = <<>>]_vars

----------------------------------------------------------------------------
(* C5: with interactive elements and starting from no selection, the first  *)
(* activation selects the element and invokes nothing; with one draggable D *)
(* (or one target T) selected and nothing selected in the other set,        *)
(* activating a target T (a draggable D) invokes the callback exactly once, *)
(* with (D, T); activating another element of the already selected set      *)
(* instead replaces the selection and invokes nothing.                      *)

C5_PairingInvokesOnce ==
    [][\A d \in Draggables, t \in Targets :
          (Interactive(d) /\ Interactive(t)) =>
              /\ (SelectedDraggablesNow = {} /\ SelectedTargetsNow = {} /\ Activate(d))
                    => (SelectedDraggablesNext = {d} /\ lastCalls' = <<>>)
              /\ (SelectedDraggablesNow = {} /\ SelectedTargetsNow = {} /\ Activate(t))
                    => (SelectedTargetsNext = {t} /\ lastCalls' = <<>>)
              /\ (SelectedDraggablesNow = {d} /\ SelectedTargetsNow = {} /\ Activate(t))
                    => lastCalls' = OneCall(d, t)
              /\ (SelectedDraggablesNow = {} /\ SelectedTargetsNow = {t} /\ Activate(d))
                    => lastCalls' = OneCall(d, t)
              /\ \A d2 \in Draggables \ {d} :
                    (Interactive(d2) /\ SelectedDraggablesNow = {d}
                        /\ SelectedTargetsNow = {} /\ Activate(d2))
                    => (SelectedDraggablesNext = {d2} /\ lastCalls' = <<>>)
              /\ \A t2 \in Targets \ {t} :
                    (Interactive(t2) /\ SelectedTargetsNow = {t}
                        /\ SelectedDraggablesNow = {} /\ Activate(t2))
                    => (SelectedTargetsNext = {t2} /\ lastCalls' = <<>>)]_vars

----------------------------------------------------------------------------
(* C6: after disableMatching(D, T) with both arguments present, no event    *)
(* delivered to D or to T, in either modality, invokes the callback or      *)
(* changes a state class.                                                   *)

\* some input event is delivered to element e in this step
EventOn(e) ==
    \/ e \in Draggables /\ (DragStart(e) \/ DragEnd(e))
    \/ e \in Targets /\ (DragEnter(e) \/ DragLeave(e) \/ DragOver(e) \/ Drop(e))
    \/ Click(e)
    \/ \E which \in {ENTER_KEY, SPACE_BAR} : KeyPress(e, which)

C6_DisabledPairInert ==
    [][\A e \in disabled :
          EventOn(e) => (cls' = cls /\ lastCalls' = <<>>)]_vars

----------------------------------------------------------------------------
(* C7: disableMatching(D2, T2) changes no attribute, state class or handler *)
(* of any other element, and the other elements stay interactive: a drop on *)
(* another target T1 in a gesture of another draggable D1 still invokes the *)
(* callback, once, with (D1, T1), and completing the discrete selection of  *)
(* D1 and T1 still invokes it, and only with (D1, T1).                      *)

\* controller state s2 differs from s1 at most on the elements of except
SameElsewhere(s1, s2, except) ==
    /\ \A e \in Elements \ except :
          /\ s2.attr[e] = s1.attr[e]
          /\ s2.cls[e] = s1.cls[e]
          /\ s2.hDrag[e] = s1.hDrag[e]
          /\ s2.hClick[e] = s1.hClick[e]
          /\ s2.hKeypress[e] = s1.hKeypress[e]
    /\ s2.hKeydown = s1.hKeydown
    /\ s2.dragElement = s1.dragElement

C7_DisableFrame ==
    \A d2 \in Draggables, t2 \in Targets :
        SameElsewhere(Cur, DisableMatching(Cur, JQ({d2}), JQ({t2})), {d2, t2})

\* this step invokes the callback, and only with draggable d and target t
InvokedWith(d, t) ==
    /\ lastCalls' # <<>>
    /\ \A i \in 1..Len(lastCalls') : lastCalls'[i] = <<JQ({d}), JQ({t})>>

C7_OthersStillMatch ==
    \A d1 \in Draggables, t1 \in Targets :
        (disabled # {} /\ Interactive(d1) /\ Interactive(t1)) =>
            /\ (InGesture(d1) /\ Drop(t1)) => lastCalls' = OneCall(d1, t1)
            /\ (SelectedDraggablesNow = {d1} /\ SelectedTargetsNow = {}
                   /\ Activate(t1)) => InvokedWith(d1, t1)
            /\ (SelectedDraggablesNow = {} /\ SelectedTargetsNow = {t1}
                   /\ Activate(d1)) => InvokedWith(d1, t1)

C7_DisableLeavesOthersInteractive ==
    []C7_DisableFrame /\ [][C7_OthersStillMatch]_vars

\* a pair is disabled and the callback has just been invoked, by a drop, with
\* a pair of other elements
C7_Witness ==
    /\ disabled = {D(2), T(2)}
    /\ InGesture(D(1))
    /\ dropDone
    /\ lastCalls = OneCall(D(1), T(1))

----------------------------------------------------------------------------
(* C8: a drop on a non-disabled target T during a gesture that began with a *)
(* handled drag-start on D invokes the callback exactly once, with (D, T),  *)
(* and leaves T without is-hovered, whatever target events preceded it.     *)

C8_DropInvokesCallbackOnce ==
    [][\A d \in Draggables, t \in Targets :
          (InGesture(d) /\ t \notin disabled /\ Drop(t)) =>
              /\ lastCalls' = OneCall(d, t)
              /\ ~CarriesNext(t, IS_HOVERED)]_vars

\* the drop of a gesture on D(1) has been delivered to T(1), which no longer
\* carries is-hovered, and the other target still does from an earlier
\* dragenter or dragover
C8_Witness ==
    /\ InGesture(D(1))
    /\ dropDone
    /\ lastCalls = OneCall(D(1), T(1))
    /\ ~Carries(T(1), IS_HOVERED)
    /\ Carries(T(2), IS_HOVERED)

----------------------------------------------------------------------------
(* C9: the active drag reference is null before the first drag-start and    *)
(* whenever no gesture of this controller is in progress, and is D during a *)
(* gesture whose drag-start on D was handled.                               *)

C9_DragReferenceOnlyInGesture ==
    /\ gesture.kind # "own" => dragElement = Undef
    /\ \A d \in Draggables : InGesture(d) => dragElement = JQ({d})

----------------------------------------------------------------------------
(* C10: every callback invocation receives exactly one draggable and        *)
(* exactly one target: neither argument is undefined, empty or a collection *)
(* of two or more elements.                                                 *)

ExactlyOne(jq, set) ==
    jq # Undef /\ Els(jq) \subseteq set /\ Cardinality(Els(jq)) = 1

C10_CallbackGetsOnePair ==
    \A i \in 1..Len(lastCalls) :
        /\ ExactlyOne(lastCalls[i][1], Draggables)
        /\ ExactlyOne(lastCalls[i][2], Targets)

----------------------------------------------------------------------------
(* C11: between init and cleanup an element has tabindex 0 exactly while it *)
(* is interactive: every draggable and target that is not disabled has      *)
(* tabindex 0 and every disabled one has none; after cleanup no element has *)
(* tabindex; and right after disableMatching(D, T) neither D nor T has      *)
(* tabindex, D has neither draggable nor aria-grabbed, and T has no         *)
(* aria-dropeffect.                                                         *)

\* the attributes of the pair in the state disableMatching(d, t) leaves
C11_PairStripped(d, t) ==
    LET s == DisableMatching(Cur, JQ({d}), JQ({t}))
    IN  /\ s.attr[d].tabindex = Absent
        /\ s.attr[t].tabindex = Absent
        /\ s.attr[d].draggable = Absent
        /\ s.attr[d].grabbed = Absent
        /\ s.attr[t].dropeffect = Absent

C11_TabindexExactlyWhileInteractive ==
    /\ \A e \in Elements :
          /\ Interactive(e) => attr[e].tabindex = "0"
          /\ ~Interactive(e) => attr[e].tabindex = Absent
    /\ \A d \in Draggables, t \in Targets : C11_PairStripped(d, t)

----------------------------------------------------------------------------
(* C12: a disableMatching call with the draggable argument missing, the     *)
(* target argument missing, or both missing changes no attribute, state     *)
(* class, handler or field of the controller, in whatever reachable state   *)
(* it is made.                                                              *)

C12_MissingArgumentIsNoOp ==
    \A dArg \in Args(Draggables), tArg \in Args(Targets) :
        (dArg = Undef \/ tArg = Undef) =>
            LET s == DisableMatching(Cur, dArg, tArg)
            IN  /\ s.cls = cls
                /\ s.attr = attr
                /\ s.hDrag = hDrag
                /\ s.hClick = hClick
                /\ s.hKeypress = hKeypress
                /\ s.hKeydown = hKeydown
                /\ s.dragElement = dragElement
                /\ s.disabled = disabled

\* a public call was made during a handled gesture on D(1) (gestureIntact was
\* reset) in a controller that was never cleaned up and in which nothing is
\* disabled: the call was a disableMatching with a missing argument
C12_Witness ==
    /\ gesture = OwnGesture(D(1))
    /\ ~gestureIntact
    /\ ~cleanedUp
    /\ hKeydown = 1
    /\ disabled = {}
    /\ hDrag[D(1)] = 1
    /\ dragElement = JQ({D(1)})
    /\ Carries(D(1), IS_MOVING)
    /\ attr[D(1)].grabbed = "true"

----------------------------------------------------------------------------
(* C13: an activation (click or confirm-key) of an element that still has   *)
(* the activation handler attached toggles its is-selected marker and       *)
(* touches its own set only: if the element was unselected it becomes       *)
(* selected, every other element of its set becomes unselected and the      *)
(* markers of the other set stay as they were; if it was selected it        *)
(* becomes unselected and no other marker changes.                          *)

\* this step is an activation of e that runs at least one handler
HandledActivate(e) ==
    \/ hClick[e] > 0 /\ Click(e)
    \/ hKeypress[e] > 0 /\ \E which \in {ENTER_KEY, SPACE_BAR} : KeyPress(e, which)

\* the set (draggables or targets) element e belongs to
OwnSet(e) == IF e \in Draggables THEN Draggables ELSE Targets

C13_ActivationTogglesOwnSetOnly ==
    [][\A e \in Elements :
          HandledActivate(e) =>
              IF ~Carries(e, IS_SELECTED)
              THEN /\ CarriesNext(e, IS_SELECTED)
                   /\ \A f \in OwnSet(e) \ {e} : ~CarriesNext(f, IS_SELECTED)
                   /\ \A f \in Elements \ OwnSet(e) : cls'[f] = cls[f]
              ELSE /\ ~CarriesNext(e, IS_SELECTED)
                   /\ \A f \in Elements \ {e} : cls'[f] = cls[f]]_vars

----------------------------------------------------------------------------
(* C14: every toggle of the discrete modality (an activation handler's, or  *)
(* the cancel-key handler's) invokes the callback if and only if a selected *)
(* draggable and a selected target both exist in the state it leaves, and   *)
(* then once, with the selected draggable and the selected target: the      *)
(* dispatch does not clear the markers. So with D1 and T1 selected, an      *)
(* activation of another target T2 invokes the callback again, with         *)
(* (D1, T2) only, and D1 is still selected; and an event whose single       *)
(* toggle deselects D1 or T1 invokes nothing.                               *)

\* the element sets a toggle can be given in the current state: one element
\* (an activation) or the selected draggables (the cancel-key)
ToggleArgs == {{e} : e \in Elements} \cup {SelectedDraggable(Cur)}

C14_DispatchIffBothSelected ==
    \A els \in ToggleArgs, cb \in CbBehaviours :
        LET s == KeyboardSelect(Cur, els, cb)
            both == SelectedDraggable(s) # {} /\ SelectedTarget(s) # {}
        IN  /\ (s.calls # <<>>) <=> both
            /\ both => s.calls = << <<JQ(SelectedDraggable(s)),
                                      JQ(SelectedTarget(s))>> >>

\* the states an activation of e can leave when it is delivered in the
\* current state and runs n handlers (n = 0: any number, but at least one),
\* one state for each behaviour of the callback
ActivationResults(e, n) ==
    IF gesture # NoGesture THEN {}
    ELSE LET clicks == IF hClick[e] > 0 /\ n \in {0, hClick[e]}
                       THEN {Dispatch(Cur, "click", e, 0, cbs) :
                                cbs \in CbChoices(hClick[e])}
                       ELSE {}
             keys == IF hKeypress[e] > 0 /\ n \in {0, hKeypress[e]}
                     THEN UNION {{Dispatch(Cur, "keypress", e, which, cbs) :
                                     cbs \in CbChoices(hKeypress[e])} :
                                 which \in {ENTER_KEY, SPACE_BAR}}
                     ELSE {}
         IN  clicks \cup keys

\* in state s the callback has been invoked, and only with draggable d and
\* target t
CalledOnlyWith(s, d, t) ==
    /\ s.calls # <<>>
    /\ \A i \in 1..Len(s.calls) : s.calls[i] = <<JQ({d}), JQ({t})>>

C14_SelectionSurvivesDispatch ==
    \A d1 \in Draggables, t1 \in Targets :
        (SelectedDraggablesNow = {d1} /\ SelectedTargetsNow = {t1}) =>
            /\ \A t2 \in Targets \ {t1} : \A s \in ActivationResults(t2, 0) :
                  CalledOnlyWith(s, d1, t2) /\ IS_SELECTED \in s.cls[d1]
            /\ \A s \in ActivationResults(d1, 1) \cup ActivationResults(t1, 1) :
                  s.calls = <<>>

C14_DispatchAfterEveryToggle ==
    C14_DispatchIffBothSelected /\ C14_SelectionSurvivesDispatch

\* D(1) and T(2) are selected and the last event invoked the callback with
\* them: the markers are still there after the dispatch
C14_Witness ==
    /\ SelectedDraggablesNow = {D(1)}
    /\ SelectedTargetsNow = {T(2)}
    /\ lastCalls = OneCall(D(1), T(2))
    /\ disabled = {}
    /\ ~cleanedUp
    /\ hKeydown = 1

----------------------------------------------------------------------------
(* C15: a drop on a target T during a gesture that began with a handled     *)
(* drag-start on D does not end the Dragging state. Whatever the callback   *)
(* does, the state the drop leaves differs in the state classes only by T   *)
(* having lost is-hovered: D still carries is-moving, every target that     *)
(* carried is-available-target still does, and the active drag reference is *)
(* still D; D's aria-grabbed is still "true" unless the callback disabled   *)
(* the pair, which removes the attribute.                                   *)

\* the states a drop on t can leave when it is delivered in the current state
DropResults(t) ==
    IF gesture = NoGesture \/ dropDone THEN {}
    ELSE {Dispatch(Cur, "drop", t, 0, cbs) : cbs \in CbChoices(hDrag[t])}

C15_DropKeepsDraggingState ==
    \A d \in Draggables, t \in Targets :
        InGesture(d) => \A s \in DropResults(t) :
            /\ \A e \in Elements \ {t} : s.cls[e] = cls[e]
            /\ s.cls[t] \in {cls[t], cls[t] \ {IS_HOVERED}}
            /\ IS_MOVING \in s.cls[d]
            /\ \A u \in Targets : IS_AVAILABLE_TARGET \in s.cls[u]
            /\ s.dragElement = JQ({d})
            /\ s.dragElement = dragElement
            /\ IF s.disabled = disabled
               THEN s.attr = attr /\ s.attr[d].grabbed = "true"
               ELSE s.attr[d].grabbed = Absent

\* the drop of a gesture on D(1) has been delivered to T(1) and has invoked
\* the callback, and the controller is still in the Dragging state
C15_Witness ==
    /\ InGesture(D(1))
    /\ dropDone
    /\ lastCalls = OneCall(D(1), T(1))
    /\ disabled = {}
    /\ Carries(D(1), IS_MOVING)
    /\ \A u \in Targets : Carries(u, IS_AVAILABLE_TARGET)
    /\ dragElement = JQ({D(1)})
    /\ attr[D(1)].grabbed = "true"

----------------------------------------------------------------------------
(* C16: the two modalities are decoupled. No drag-gesture event (drag-start, *)
(* drag-end, drag-enter, drag-leave, drag-over, drop) changes an             *)
(* is-selected marker; no discrete event (click, key press, cancel-key)      *)
(* changes is-moving, is-available-target or is-hovered on any element or    *)
(* the active drag reference, and aria-grabbed changes in a discrete event   *)
(* only where the callback it invoked disabled the element.                  *)

\* the handlers of a drag event that is not a drop never invoke the callback
NoCallback(n) == [i \in 1..n |-> "nothing"]

\* the states the drag-gesture events deliverable in the current state can
\* leave
DragEventResults ==
    LET starts == IF gesture # NoGesture THEN {}
                  ELSE {Dispatch(Cur, "dragstart", d, 0, NoCallback(hDrag[d])) :
                           d \in Draggables}
        ends == {Dispatch(Cur, "dragend", d, 0, NoCallback(hDrag[d])) :
                    d \in gesture.src}
        moves == IF gesture = NoGesture \/ dropDone THEN {}
                 ELSE UNION {{Dispatch(Cur, type, t, 0, NoCallback(hDrag[t])) :
                                 type \in {"dragenter", "dragleave", "dragover"}} :
                             t \in Targets}
    IN  starts \cup ends \cup moves \cup UNION {DropResults(t) : t \in Targets}

\* the states the discrete events deliverable in the current state can leave
DiscreteEventResults ==
    IF gesture # NoGesture THEN {}
    ELSE LET clicks == UNION {{Dispatch(Cur, "click", e, 0, cbs) :
                                  cbs \in CbChoices(hClick[e])} : e \in Elements}
             presses == UNION {{Dispatch(Cur, "keypress", ew[1], ew[2], cbs) :
                                   cbs \in CbChoices(hKeypress[ew[1]])} :
                               ew \in Elements \X KeypressKeys}
             downs == UNION {{Dispatch(Cur, "keydown", 0, which, cbs) :
                                 cbs \in CbChoices(hKeydown)} :
                             which \in KeydownKeys}
         IN  clicks \cup presses \cup downs

DragMarkers == {IS_MOVING, IS_AVAILABLE_TARGET, IS_HOVERED}

C16_ModalitiesDecoupled ==
    /\ \A s \in DragEventResults : \A e \in Elements :
          (IS_SELECTED \in s.cls[e]) <=> (IS_SELECTED \in cls[e])
    /\ \A s \in DiscreteEventResults :
          /\ s.dragElement = dragElement
          /\ \A e \in Elements :
                /\ s.cls[e] \cap DragMarkers = cls[e] \cap DragMarkers
                /\ s.attr[e].grabbed # attr[e].grabbed =>
                      (e \in s.disabled /\ s.attr[e].grabbed = Absent)

\* D(1) was selected when a gesture began on D(2) and is still selected while
\* the gesture hovers over T(1)
C16_Witness ==
    /\ SelectedDraggablesNow = {D(1)}
    /\ InGesture(D(2))
    /\ Carries(D(2), IS_MOVING)
    /\ Carries(T(1), IS_HOVERED)

----------------------------------------------------------------------------
(* C17: disabling is permanent: in every state after disableMatching(D, T), *)
(* until init runs again, T has no aria-dropeffect and D has no             *)
(* aria-grabbed, draggable or tabindex, and T does not carry                *)
(* is-available-target during a handled gesture of a draggable that is not  *)
(* disabled (a later drag-start on another draggable does not re-mark T).   *)

C17_DisablingIsPermanent ==
    /\ \A t \in disabled \cap Targets :
          /\ attr[t].dropeffect = Absent
          /\ (\E d2 \in Draggables \ disabled : InGesture(d2))
                => ~Carries(t, IS_AVAILABLE_TARGET)
    /\ \A d \in disabled \cap Draggables :
          /\ attr[d].grabbed = Absent
          /\ attr[d].draggable = Absent
          /\ attr[d].tabindex = Absent

----------------------------------------------------------------------------
(* C18: a target carries is-hovered only while a gesture is in progress:    *)
(* a handled drag-enter or drag-over on T leaves T with is-hovered, a       *)
(* handled drag-leave or drop on T leaves it without, and whenever no       *)
(* gesture is in progress (before the first one and after each drag-end,    *)
(* cancelled gestures included) no target carries is-hovered.               *)

\* the state a handled target event of the given type on t leaves when it is
\* delivered in the current state (the callback doing nothing)
TargetEventResults(type, t) ==
    IF gesture = NoGesture \/ dropDone \/ hDrag[t] = 0 THEN {}
    ELSE {Dispatch(Cur, type, t, 0, NoCallback(hDrag[t]))}

C18_HoveredOnlyDuringGesture ==
    /\ \A t \in Targets :
          /\ \A s \in TargetEventResults("dragenter", t) : IS_HOVERED \in s.cls[t]
          /\ \A s \in TargetEventResults("dragover", t) : IS_HOVERED \in s.cls[t]
          /\ \A s \in TargetEventResults("dragleave", t) : IS_HOVERED \notin s.cls[t]
          /\ \A s \in TargetEventResults("drop", t) : IS_HOVERED \notin s.cls[t]
    /\ gesture = NoGesture => \A t \in Targets : ~Carries(t, IS_HOVERED)

----------------------------------------------------------------------------
(* C19: no event, of either modality, invokes the callback with a draggable *)
(* or a target that had been given to disableMatching before the event.     *)

\* the elements of a callback argument (none when it is undefined)
ArgEls(jq) == IF jq = Undef THEN {} ELSE Els(jq)

C19_NoCallbackWithDisabled ==
    [][\A i \in 1..Len(lastCalls') :
          /\ ArgEls(lastCalls'[i][1]) \cap disabled = {}
          /\ ArgEls(lastCalls'[i][2]) \cap disabled = {}]_vars

----------------------------------------------------------------------------
(* C20: cleanup() followed by init() is equivalent to a fresh init: in      *)
(* every state in which the controller is set up, after any number of       *)
(* cleanup/init cycles, each input event is handled once. An activation of  *)
(* an unselected interactive element leaves it selected; completing the     *)
(* pair by activating T with D selected invokes the callback exactly once,  *)
(* with (D, T); a drop on T in a handled gesture on D invokes it exactly    *)
(* once, with (D, T); the cancel-key leaves the selected draggable          *)
(* unselected.                                                              *)

\* the states a cancel-key can leave when it is delivered in the current state
CancelResults ==
    IF gesture # NoGesture THEN {}
    ELSE {Dispatch(Cur, "keydown", 0, ESCAPE, cbs) : cbs \in CbChoices(hKeydown)}

C20_EachEventHandledOnce ==
    ~cleanedUp =>
        /\ \A e \in Elements :
              (Interactive(e) /\ ~Carries(e, IS_SELECTED)) =>
                  \A s \in ActivationResults(e, 0) : IS_SELECTED \in s.cls[e]
        /\ \A d \in Draggables, t \in Targets :
              (Interactive(d) /\ Interactive(t)) =>
                  /\ (SelectedDraggablesNow = {d} /\ SelectedTargetsNow = {}) =>
                        \A s \in ActivationResults(t, 0) : s.calls = OneCall(d, t)
                  /\ InGesture(d) =>
                        \A s \in DropResults(t) : s.calls = OneCall(d, t)
        /\ \A d \in SelectedDraggablesNow :
              \A s \in CancelResults : IS_SELECTED \notin s.cls[d]

====
